---- MODULE Spec2Model ----
(***************************************************************************)
(* A model of the quantized-classification driver: main.py (argument       *)
(* handling, model construction, hook registration and run-mode dispatch), *)
(* models/utils.py (set_arch_name) and models/mobilenetv2.py (the model    *)
(* builder).  The Trainer and the quantizer's add_hooks live outside the   *)
(* three source files; they are modelled from the written specification.   *)
(*                                                                         *)
(* Python strings that the code slices, concatenates or formats are        *)
(* sequences of one-character strings; strings that are only compared are  *)
(* TLA+ strings.  A width multiplier is held in quarters (4 is 1.0): every *)
(* quarter is an exact binary float, so c * width_mult is exact and        *)
(* int(...) is the floor division by 4.                                    *)
(***************************************************************************)
EXTENDS Integers, Sequences, FiniteSets, TLC

VARIABLES cfg, pc, arch_name, qcfg, built, objects,
          hooks, calls, mode, tpc, epoch, batch, trace

vars == <<cfg, pc, arch_name, qcfg, built, objects,
          hooks, calls, mode, tpc, epoch, batch, trace>>

\* ---------------------------------------------------------------- bounds

MaxEpochs == 2
MaxBatches == 2
MaxWidth == 8

\* ------------------------------------------------------- string literals

S_resnet == <<"r","e","s","n","e","t">>
S_preactresnet == <<"p","r","e","a","c","t","r","e","s","n","e","t">>
S_mobilenetv2 == <<"m","o","b","i","l","e","n","e","t","v","2">>
S_vgg == <<"v","g","g">>
S_cifar10 == <<"c","i","f","a","r","1","0">>
S_cifar100 == <<"c","i","f","a","r","1","0","0">>
S_imagenet == <<"i","m","a","g","e","n","e","t">>
S_mnist == <<"m","n","i","s","t">>
S_cifar == <<"c","i","f","a","r">>

\* ------------------------------------------------ python string helpers

Digits == <<"0","1","2","3","4","5","6","7","8","9">>

\* str(n) for n >= 0, as an f-string renders an int
RECURSIVE IntStr(_)
IntStr(n) ==
    IF n < 10 THEN <<Digits[n + 1]>>
    ELSE IntStr(n \div 10) \o <<Digits[(n % 10) + 1]>>

\* str(w) for the float w/4: the shortest repr, "0.5", "1.25", "2.0"
FloatStr(w) ==
    IntStr(w \div 4) \o <<".">> \o
        (CASE w % 4 = 0 -> <<"0">>
           [] w % 4 = 1 -> <<"2","5">>
           [] w % 4 = 2 -> <<"5">>
           [] w % 4 = 3 -> <<"7","5">>)

DigitVal(c) == CHOOSE d \in 0..9 : Digits[d + 1] = c

\* int(s) for a string of decimal digits
RECURSIVE ParseInt(_)
ParseInt(s) ==
    IF Len(s) = 1 THEN DigitVal(s[1])
    ELSE 10 * ParseInt(SubSeq(s, 1, Len(s) - 1)) + DigitVal(s[Len(s)])

\* s[k:] of python (k counted from 0)
SliceFrom(s, k) == SubSeq(s, k + 1, Len(s))

\* int(c * width_mult) with width_mult = w/4
ScaleInt(c, w) == (c * w) \div 4

\* ---------------------------------------------- models/utils.py

set_arch_name_always_x(c) ==
    IF c.arch \in {S_resnet, S_preactresnet}
    THEN c.arch \o <<"-">> \o IntStr(c.layers)
    ELSE IF c.arch \in {S_mobilenetv2}
         THEN c.arch \o <<"x">> \o FloatStr(c.width_mult)
         ELSE c.arch

set_arch_name(c) ==
    LET arch_name0 == c.arch IN
    IF c.arch \in {S_resnet, S_preactresnet}
    THEN arch_name0 \o <<"-">> \o IntStr(c.layers)
    ELSE IF c.arch \in {S_mobilenetv2}
         THEN IF c.width_mult # 4
              THEN arch_name0 \o <<"x">> \o FloatStr(c.width_mult)
              ELSE arch_name0
         ELSE arch_name0

\* ---------------------------------------------- models/mobilenetv2.py

\* an optional bitw argument: <<>> is None, <<b>> is the value b
conv2d(inplanes, out_planes, kernel_size, stride, padding, groups, bitw, q) ==
    [type |-> "QuantConv2d", inplanes |-> inplanes, out_planes |-> out_planes,
     kernel_size |-> kernel_size, stride |-> stride, padding |-> padding,
     groups |-> groups, bias |-> FALSE,
     nbits |-> IF bitw = <<>> THEN q.bitw ELSE bitw[1],
     symmetric |-> q.symmetric]

relu6(q) == [type |-> "QuantReLU6", nbits |-> q.bita]

identity(bitw, q) ==
    [type |-> "QuantIdentity",
     nbits |-> IF bitw = <<>> THEN q.bitw ELSE bitw[1],
     symmetric |-> q.symmetric]

\* quant_act is <<>> when the module has no such attribute
ConvBNReLU(in_planes, out_planes, kernel_size, stride, groups, bitw, quant_input, q) ==
    LET padding == IF kernel_size > 1 THEN (kernel_size - 1) \div 2 ELSE 0 IN
    [type |-> "ConvBNReLU",
     quant_act |-> IF ~quant_input THEN <<identity(bitw, q)>> ELSE <<>>,
     conv |-> conv2d(in_planes, out_planes, kernel_size, stride, padding, groups, bitw, q),
     bn |-> out_planes,
     act |-> relu6(q)]

UseResConnect_strideonly(stride, inp, oup) == stride = 1

UseResConnect(stride, inp, oup) == stride = 1 /\ inp = oup

InvertedResidual(inp, oup, stride, expand_ratio, quant_input, q) ==
    IF stride \notin {1, 2} THEN [type |-> "AssertionError"]
    ELSE
    LET hidden_dim == inp * expand_ratio
        pw == IF expand_ratio # 1
              THEN <<ConvBNReLU(inp, hidden_dim, 1, 1, 1, <<>>, quant_input, q)>>
              ELSE <<>>
    IN [type |-> "InvertedResidual",
        stride |-> stride,
        use_res_connect |-> UseResConnect(stride, inp, oup),
        conv |-> pw \o
                 <<ConvBNReLU(hidden_dim, hidden_dim, 3, stride, hidden_dim, <<>>, TRUE, q),
                   conv2d(hidden_dim, oup, 1, 1, 0, 1, <<>>, q),
                   [type |-> "BatchNorm2d", num_features |-> oup]>>]

\* the table of MobileNetV2: t, c, n, s, q
inverted_residual_setting ==
    << <<1, 16, 1, 1, TRUE>>,
       <<6, 24, 2, 2, FALSE>>,
       <<6, 32, 3, 2, FALSE>>,
       <<6, 64, 4, 2, FALSE>>,
       <<6, 96, 3, 1, FALSE>>,
       <<6, 160, 3, 2, FALSE>>,
       <<6, 320, 1, 1, FALSE>> >>

\* the table of MobileNetV2_CIFAR: t, c, n, s
inverted_residual_setting_cifar ==
    << <<1, 16, 1, 1>>,
       <<6, 24, 2, 1>>,
       <<6, 32, 3, 1>>,
       <<6, 64, 4, 2>>,
       <<6, 96, 3, 1>>,
       <<6, 160, 3, 2>>,
       <<6, 320, 1, 1>> >>

\* stride = s if i == 0 else 1 (i counted from 1 here)
BlockStride(s, i) == IF i = 1 THEN s ELSE 1

RowQuantInput_ignored(row) == TRUE

\* the q of a row, as MobileNetV2's loop unpacks and passes it
RowQuantInput(row) == row[5]

\* the blocks of the rows of MobileNetV2's table, input_channel threaded through
RECURSIVE Blocks(_, _, _, _)
Blocks(table, input_channel, width_mult, q) ==
    IF table = <<>> THEN <<>>
    ELSE LET row == Head(table)
             output_channel == ScaleInt(row[2], width_mult)
             n == row[3]
         IN [i \in 1..n |->
                InvertedResidual(IF i = 1 THEN input_channel ELSE output_channel,
                                 output_channel, BlockStride(row[4], i), row[1],
                                 RowQuantInput(row), q)]
            \o Blocks(Tail(table), IF n > 0 THEN output_channel ELSE input_channel,
                      width_mult, q)

\* the same loop of MobileNetV2_CIFAR: the block takes its default quant_input
RECURSIVE BlocksCIFAR(_, _, _, _)
BlocksCIFAR(table, input_channel, width_mult, q) ==
    IF table = <<>> THEN <<>>
    ELSE LET row == Head(table)
             output_channel == ScaleInt(row[2], width_mult)
             n == row[3]
         IN [i \in 1..n |->
                InvertedResidual(IF i = 1 THEN input_channel ELSE output_channel,
                                 output_channel, BlockStride(row[4], i), row[1],
                                 TRUE, q)]
            \o BlocksCIFAR(Tail(table), IF n > 0 THEN output_channel ELSE input_channel,
                           width_mult, q)

\* InvertedResidual.forward: what the block returns for its input x
forward(block) == IF block.use_res_connect THEN "x + conv(x)" ELSE "conv(x)"

\* input_channel after the loop over the table
RECURSIVE FinalChannel(_, _, _)
FinalChannel(table, input_channel, width_mult) ==
    IF table = <<>> THEN input_channel
    ELSE FinalChannel(Tail(table),
                      IF Head(table)[3] > 0 THEN ScaleInt(Head(table)[2], width_mult)
                      ELSE input_channel,
                      width_mult)

MaxOf(a, b) == IF a >= b THEN a ELSE b

QuantLinear(in_features, out_features, q) ==
    [type |-> "QuantLinear", in_features |-> in_features,
     out_features |-> out_features, nbits |-> q.last_fc_bitw,
     symmetric |-> q.symmetric]

MobileNetV2(num_classes, width_mult, q) ==
    LET input_channel == ScaleInt(32, width_mult)
        last_channel == ScaleInt(1280, MaxOf(4, width_mult))
        table == inverted_residual_setting
    IN [type |-> "MobileNetV2",
        last_channel |-> last_channel,
        features |->
            <<ConvBNReLU(3, input_channel, 3, 2, 1, <<q.first_conv_bitw>>, TRUE, q)>>
            \o Blocks(table, input_channel, width_mult, q)
            \o <<ConvBNReLU(FinalChannel(table, input_channel, width_mult),
                            last_channel, 1, 1, 1, <<>>, FALSE, q)>>,
        classifier |-> <<QuantLinear(last_channel, num_classes, q)>>]

MobileNetV2_CIFAR(num_classes, width_mult, q) ==
    LET input_channel == ScaleInt(32, width_mult)
        last_channel == ScaleInt(1280, MaxOf(4, width_mult))
        table == inverted_residual_setting_cifar
    IN [type |-> "MobileNetV2_CIFAR",
        last_channel |-> last_channel,
        features |->
            <<ConvBNReLU(3, input_channel, 3, 1, 1, <<q.first_conv_bitw>>, TRUE, q)>>
            \o BlocksCIFAR(table, input_channel, width_mult, q)
            \o <<ConvBNReLU(FinalChannel(table, input_channel, width_mult),
                            last_channel, 1, 1, 1, <<>>, TRUE, q)>>,
        classifier |-> <<QuantLinear(last_channel, num_classes, q)>>]

\* the qcfg global that set_model fills before it looks at the dataset
SetQcfg(c) ==
    [bitw |-> c.bitw, bita |-> c.bita, first_conv_bitw |-> c.first_conv_bitw,
     last_fc_bitw |-> c.last_fc_bitw, symmetric |-> c.symmetric]

NumClasses_fixed10(dataset) == 10

\* num_classes = int(cfg.dataset[5:])
NumClasses(dataset) == ParseInt(SliceFrom(dataset, 5))

set_model_fallback(c) ==
    IF c.dataset \in {S_cifar10, S_cifar100}
    THEN <<MobileNetV2_CIFAR(NumClasses(c.dataset), c.width_mult, SetQcfg(c)), 32>>
    ELSE <<MobileNetV2(1000, c.width_mult, SetQcfg(c)), 224>>

\* what set_model returns: <<model, image_size>>, or <<>> when it raises
set_model(c) ==
    IF c.dataset \in {S_cifar10, S_cifar100}
    THEN <<MobileNetV2_CIFAR(NumClasses(c.dataset), c.width_mult, SetQcfg(c)), 32>>
    ELSE IF c.dataset \in {S_imagenet}
         THEN <<MobileNetV2(1000, c.width_mult, SetQcfg(c)), 224>>
         ELSE <<>>

\* ---------------------------------------------- the Trainer's hook registry

Locations == {"before_train", "before_epoch", "after_batch", "after_epoch"}

EmptyHooks == [loc \in Locations |-> <<>>]

\* Trainer.register_hooks(loc, func): the callables are appended to loc's list
register_hooks(h, loc, func) == [h EXCEPT ![loc] = @ \o func]

\* running a location: every callable of its list, in list order
RunHooks(h, loc, e, b) ==
    [i \in 1..Len(h[loc]) |-> [loc |-> loc, func |-> h[loc][i], epoch |-> e, batch |-> b]]

\* one register_hooks call of main, with the record of the call
Register(loc, func) ==
    /\ hooks' = register_hooks(hooks, loc, func)
    /\ calls' = Append(calls, [loc |-> loc, func |-> func])

\* ---------------------------------------------- the quantizer module

\* cfg.quantization names a quantizer: "none" has no add_hooks attribute, any
\* other registers its own hook at the named location
HasAddHooks(quantizer) == quantizer # "none"

\* ---------------------------------------------- main.py

TrainerVars == <<mode, tpc, epoch, batch, trace>>

\* line 25 and 28
SetArchName ==
    /\ pc = "arch_name"
    /\ arch_name' = set_arch_name(cfg)
    /\ objects' = objects \cup {"logger"}
    /\ pc' = "set_model"
    /\ UNCHANGED <<cfg, qcfg, built, hooks, calls>>
    /\ UNCHANGED TrainerVars

\* line 33: the qcfg global is set, then the model is built or the call raises
SetModel ==
    /\ pc = "set_model"
    /\ qcfg' = <<SetQcfg(cfg)>>
    /\ built' = set_model(cfg)
    /\ pc' = IF set_model(cfg) = <<>> THEN "failed" ELSE "setup"
    /\ UNCHANGED <<cfg, arch_name, objects, hooks, calls>>
    /\ UNCHANGED TrainerVars

\* lines 41 to 56
SetUp ==
    /\ pc = "setup"
    /\ objects' = objects \cup {"criterion", "optimizer", "lr_scheduler", "loaders", "trainer"}
    /\ hooks' = EmptyHooks
    /\ pc' = "dispatch"
    /\ UNCHANGED <<cfg, arch_name, qcfg, built, calls>>
    /\ UNCHANGED TrainerVars

Branch_crossed(run_type) ==
    CASE run_type = "train" -> "train_load"
      [] run_type = "validate" -> "test_before"
      [] run_type = "test" -> "validate_before"
      [] run_type = "analyze" -> "analyze_before"
      [] OTHER -> "done"

\* the branch of lines 59, 77, 84 and 91
Branch(run_type) ==
    CASE run_type = "train" -> "train_load"
      [] run_type = "validate" -> "validate_before"
      [] run_type = "test" -> "test_before"
      [] run_type = "analyze" -> "analyze_before"
      [] OTHER -> "done"

Dispatch ==
    /\ pc = "dispatch"
    /\ pc' = Branch(cfg.run_type)
    /\ UNCHANGED <<cfg, arch_name, qcfg, built, objects, hooks, calls>>
    /\ UNCHANGED TrainerVars

RegOnly == <<cfg, arch_name, qcfg, built, objects>>

LoadHook_resumefirst(c) ==
    IF c.resume THEN <<"load_resume">>
    ELSE IF c.load # "None" THEN <<"load_init">> ELSE <<>>

\* lines 61 to 65: the checkpoint hook of a train run, <<>> when none
LoadHook(c) ==
    IF c.load # "None"
    THEN IF ~c.resume THEN <<"load_init">> ELSE <<"load_resume">>
    ELSE <<>>

RegTrainLoad ==
    /\ pc = "train_load"
    /\ IF LoadHook(cfg) # <<>>
       THEN Register("before_train", LoadHook(cfg))
       ELSE UNCHANGED <<hooks, calls>>
    /\ pc' = "train_step"
    /\ UNCHANGED RegOnly
    /\ UNCHANGED TrainerVars

StepHook_swapped(c) ==
    IF c.step_location = "epoch"
    THEN [loc |-> "after_batch", func |-> <<"step_lr_batch">>]
    ELSE [loc |-> "after_epoch", func |-> <<"step_lr_epoch">>]

\* lines 66 to 69
StepHook(c) ==
    IF c.step_location = "epoch"
    THEN [loc |-> "after_epoch", func |-> <<"step_lr_epoch">>]
    ELSE [loc |-> "after_batch", func |-> <<"step_lr_batch">>]

RegTrainStep ==
    /\ pc = "train_step"
    /\ Register(StepHook(cfg).loc, StepHook(cfg).func)
    /\ pc' = "train_save"
    /\ UNCHANGED RegOnly
    /\ UNCHANGED TrainerVars

TrainSaveHooks_reordered == <<"summarize_reports", "save_train">>

\* line 70: the callables of the second after_epoch registration
TrainSaveHooks == <<"save_train", "summarize_reports">>

RegTrainSave ==
    /\ pc = "train_save"
    /\ Register("after_epoch", TrainSaveHooks)
    /\ pc' = "train_quant"
    /\ UNCHANGED RegOnly
    /\ UNCHANGED TrainerVars

\* lines 72 and 73
AddQuantHooks ==
    /\ pc = "train_quant"
    /\ IF HasAddHooks(cfg.quantization)
       THEN Register(cfg.quantization, <<"quant_hook">>)
       ELSE UNCHANGED <<hooks, calls>>
    /\ pc' = "train_call"
    /\ UNCHANGED RegOnly
    /\ UNCHANGED TrainerVars

\* the Trainer's entry point: before_train hooks run once, in train only
Enter(m) ==
    /\ mode' = m
    /\ tpc' = "epoch_loop"
    /\ epoch' = 0
    /\ batch' = 0
    /\ trace' = IF m = "train" THEN trace \o RunHooks(hooks, "before_train", 0, 0)
                ELSE trace
    /\ pc' = "in_trainer"
    /\ UNCHANGED <<cfg, arch_name, qcfg, built, objects, hooks, calls>>

\* line 75
CallTrain == pc = "train_call" /\ Enter("train")

\* line 79
RegValidateBefore ==
    /\ pc = "validate_before"
    /\ Register("before_epoch", <<"load_valid">>)
    /\ pc' = "validate_after"
    /\ UNCHANGED RegOnly
    /\ UNCHANGED TrainerVars

\* line 80
RegValidateAfter ==
    /\ pc = "validate_after"
    /\ Register("after_epoch", <<"summarize_reports">>)
    /\ pc' = "validate_call"
    /\ UNCHANGED RegOnly
    /\ UNCHANGED TrainerVars

\* line 82
CallValidate == pc = "validate_call" /\ Enter("validate")

\* line 86
RegTestBefore ==
    /\ pc = "test_before"
    /\ Register("before_epoch", <<"load_valid">>)
    /\ pc' = "test_after"
    /\ UNCHANGED RegOnly
    /\ UNCHANGED TrainerVars

\* line 87
RegTestAfter ==
    /\ pc = "test_after"
    /\ Register("after_epoch", <<"save_pred">>)
    /\ pc' = "test_call"
    /\ UNCHANGED RegOnly
    /\ UNCHANGED TrainerVars

\* line 89
CallTest == pc = "test_call" /\ Enter("test")

\* line 93
RegAnalyzeBefore ==
    /\ pc = "analyze_before"
    /\ Register("before_epoch", <<"load_valid">>)
    /\ pc' = "analyze_init"
    /\ UNCHANGED RegOnly
    /\ UNCHANGED TrainerVars

\* lines 95 to 97
RegAnalyzeInit ==
    /\ pc = "analyze_init"
    /\ objects' = objects \cup {"extractor"}
    /\ Register("before_epoch", <<"extractor.initialize">>)
    /\ pc' = "analyze_check"
    /\ UNCHANGED <<cfg, arch_name, qcfg, built>>
    /\ UNCHANGED TrainerVars

CheckFeatureLoc_epoch == "after_epoch"

\* line 98: where extractor.check_feature is registered
CheckFeatureLoc == "after_batch"

RegAnalyzeCheck ==
    /\ pc = "analyze_check"
    /\ Register(CheckFeatureLoc, <<"extractor.check_feature">>)
    /\ pc' = "analyze_save"
    /\ UNCHANGED RegOnly
    /\ UNCHANGED TrainerVars

\* line 99
RegAnalyzeSave ==
    /\ pc = "analyze_save"
    /\ Register("after_epoch", <<"extractor.save_feature">>)
    /\ pc' = "analyze_call"
    /\ UNCHANGED RegOnly
    /\ UNCHANGED TrainerVars

\* line 101
CallAnalyze == pc = "analyze_call" /\ Enter("analyze")

\* ---------------------------------------------- the Trainer's loops

Static == <<cfg, arch_name, qcfg, built, objects, hooks, calls>>

BeforeEpoch ==
    /\ pc = "in_trainer" /\ tpc = "epoch_loop" /\ epoch < cfg.epochs
    /\ trace' = trace \o RunHooks(hooks, "before_epoch", epoch, 0)
    /\ batch' = 0
    /\ tpc' = "batch_loop"
    /\ UNCHANGED <<pc, mode, epoch>>
    /\ UNCHANGED Static

\* one batch: forward, loss, (train) backward and optimizer step, then after_batch
Batch ==
    /\ pc = "in_trainer" /\ tpc = "batch_loop" /\ batch < cfg.num_batches
    /\ trace' = trace \o RunHooks(hooks, "after_batch", epoch, batch)
    /\ batch' = batch + 1
    /\ UNCHANGED <<pc, mode, tpc, epoch>>
    /\ UNCHANGED Static

AfterEpoch ==
    /\ pc = "in_trainer" /\ tpc = "batch_loop" /\ batch = cfg.num_batches
    /\ trace' = trace \o RunHooks(hooks, "after_epoch", epoch, batch)
    /\ epoch' = epoch + 1
    /\ tpc' = "epoch_loop"
    /\ UNCHANGED <<pc, mode, batch>>
    /\ UNCHANGED Static

\* the entry point returns to main, which ends
Return ==
    /\ pc = "in_trainer" /\ tpc = "epoch_loop" /\ epoch = cfg.epochs
    /\ tpc' = "finished"
    /\ pc' = "done"
    /\ UNCHANGED <<mode, epoch, batch, trace>>
    /\ UNCHANGED Static

\* ---------------------------------------------- configurations and runs

BaseCfg ==
    [arch |-> S_mobilenetv2, layers |-> 50, width_mult |-> 4, dataset |-> S_cifar10,
     bitw |-> 4, bita |-> 4, first_conv_bitw |-> 8, last_fc_bitw |-> 8,
     symmetric |-> FALSE, quantization |-> "none", run_type |-> "validate",
     load |-> "None", resume |-> FALSE, step_location |-> "epoch",
     epochs |-> 1, num_batches |-> 1]

Start ==
    /\ pc = "arch_name"
    /\ arch_name = <<>>
    /\ qcfg = <<>>
    /\ built = <<>>
    /\ objects = {}
    /\ hooks = EmptyHooks
    /\ calls = <<>>
    /\ mode = "none"
    /\ tpc = "idle"
    /\ epoch = 0
    /\ batch = 0
    /\ trace = <<>>

MainCfgs ==
    {[BaseCfg EXCEPT !.dataset = d, !.quantization = qz, !.run_type = r,
                     !.load = l, !.resume = rs, !.step_location = sl,
                     !.epochs = e, !.num_batches = n] :
        d \in {S_cifar10, S_imagenet, S_mnist},
        qz \in {"none"} \cup Locations,
        r \in {"train", "validate", "test", "analyze", "profile"},
        l \in {"None", "ckpt.pth"},
        rs \in BOOLEAN,
        sl \in {"epoch", "batch", "iter"},
        e \in 0..MaxEpochs,
        n \in 0..MaxBatches}

Init == cfg \in MainCfgs /\ Start

Next ==
    \/ SetArchName \/ SetModel \/ SetUp \/ Dispatch
    \/ RegTrainLoad \/ RegTrainStep \/ RegTrainSave \/ AddQuantHooks \/ CallTrain
    \/ RegValidateBefore \/ RegValidateAfter \/ CallValidate
    \/ RegTestBefore \/ RegTestAfter \/ CallTest
    \/ RegAnalyzeBefore \/ RegAnalyzeInit \/ RegAnalyzeCheck \/ RegAnalyzeSave
    \/ CallAnalyze
    \/ BeforeEpoch \/ Batch \/ AfterEpoch \/ Return

Spec == Init /\ [][Next]_vars

\* set_arch_name over architectures, layer counts and width multipliers
ArchCfgs ==
    {[BaseCfg EXCEPT !.arch = a, !.layers = ly, !.width_mult = w] :
        a \in {S_resnet, S_preactresnet, S_mobilenetv2, S_vgg},
        ly \in {18, 50, 101},
        w \in 1..MaxWidth}

InitArch == cfg \in ArchCfgs /\ Start

SpecArch == InitArch /\ [][SetArchName]_vars

\* set_model over datasets, width multipliers and quantization settings
ModelCfgs ==
    {[BaseCfg EXCEPT !.dataset = d, !.width_mult = w, !.bitw = b, !.symmetric = sy] :
        d \in {S_cifar10, S_cifar100, S_imagenet, S_mnist, S_cifar},
        w \in 1..MaxWidth,
        b \in {4, 8},
        sy \in BOOLEAN}

InitModel == cfg \in ModelCfgs /\ Start

NextModel == SetArchName \/ SetModel

SpecModel == InitModel /\ [][NextModel]_vars

\* ---------------------------------------------- helpers of the properties

Recognized == {S_cifar10, S_cifar100, S_imagenet}
RunModes == {"train", "validate", "test", "analyze"}
Entered == mode # "none"

\* the positions of the trace where func ran for epoch e
RunsOf(func, e) == {i \in DOMAIN trace : trace[i].func = func /\ trace[i].epoch = e}

\* the callables of a sequence of trace entries
FuncsOf(entries) == [i \in DOMAIN entries |-> entries[i].func]

\* the callables that ran at loc for epoch e and batch b, in order
Segment(loc, e, b) ==
    LET At(x) == x.loc = loc /\ x.epoch = e /\ x.batch = b
    IN FuncsOf(SelectSeq(trace, At))

\* the members of set fs among the callables that ran for epoch e, in order
EpochFuncs(fs, e) ==
    LET In(x) == x.epoch = e /\ x.func \in fs
    IN FuncsOf(SelectSeq(trace, In))

\* the members of set fs in a list of callables, in order
Only(list, fs) ==
    LET In(f) == f \in fs
    IN SelectSeq(list, In)

\* everything the calls registered at loc, concatenated in call order
RECURSIVE RegisteredAt(_, _)
RegisteredAt(cs, loc) ==
    IF cs = <<>> THEN <<>>
    ELSE (IF Head(cs).loc = loc THEN Head(cs).func ELSE <<>>)
         \o RegisteredAt(Tail(cs), loc)

Repeat(f, n) == [i \in 1..n |-> f]

\* batches of the current epoch already processed
BatchesDone == IF tpc = "batch_loop" THEN batch ELSE 0

\* ---------------------------------------------- C1

StepFuncs == {"step_lr_epoch", "step_lr_batch"}

\* C1: in a train run the scheduler-step hook sits at exactly one location.
\* With step_location 'epoch', step_lr_epoch has run exactly once for every
\* finished epoch, always at after_epoch, and no step hook has run at
\* after_batch; otherwise step_lr_batch has run exactly once for every
\* processed batch, always at after_batch, and no step hook has run at
\* after_epoch.  Never both hooks, never neither.
C1_StepOncePerUnit ==
    (Entered /\ mode = "train") =>
        /\ Len(Only(hooks["after_epoch"], StepFuncs))
             + Len(Only(hooks["after_batch"], StepFuncs)) = 1
        /\ Only(hooks["before_train"] \o hooks["before_epoch"], StepFuncs) = <<>>
        /\ IF cfg.step_location = "epoch"
           THEN /\ Only(hooks["after_epoch"], StepFuncs) = <<"step_lr_epoch">>
                /\ \A e \in 0..(cfg.epochs - 1) :
                      Cardinality(RunsOf("step_lr_epoch", e)) = IF e < epoch THEN 1 ELSE 0
                /\ \A i \in DOMAIN trace :
                      /\ trace[i].func # "step_lr_batch"
                      /\ trace[i].func = "step_lr_epoch" => trace[i].loc = "after_epoch"
           ELSE /\ Only(hooks["after_batch"], StepFuncs) = <<"step_lr_batch">>
                /\ \A e \in 0..(cfg.epochs - 1) :
                      Cardinality(RunsOf("step_lr_batch", e)) =
                          IF e < epoch THEN cfg.num_batches
                          ELSE IF e = epoch THEN BatchesDone ELSE 0
                /\ \A e \in 0..(cfg.epochs - 1) : \A b \in 0..(cfg.num_batches - 1) :
                      Len(Only(Segment("after_batch", e, b), StepFuncs)) <= 1
                /\ \A i \in DOMAIN trace :
                      /\ trace[i].func # "step_lr_epoch"
                      /\ trace[i].func = "step_lr_batch" => trace[i].loc = "after_batch"

C1_Witness ==
    /\ pc = "done" /\ mode = "train" /\ cfg.step_location = "epoch"
    /\ cfg.epochs = 2 /\ cfg.num_batches = 2
    /\ Cardinality({i \in DOMAIN trace : trace[i].func = "step_lr_epoch"}) = 2

\* ---------------------------------------------- C2

ExtractorFuncs ==
    {"extractor.initialize", "extractor.check_feature", "extractor.save_feature"}

\* C2: in an analyze run over N batches every epoch calls the extractor as
\* initialize once (at before_epoch), then check_feature N times (once after
\* each batch), then save_feature once (at after_epoch); an epoch under way
\* has made a prefix of these calls, an epoch not begun none.
C2_AnalyzeOrder ==
    (Entered /\ mode = "analyze") =>
        /\ \A e \in 0..(cfg.epochs - 1) :
              EpochFuncs(ExtractorFuncs, e) =
                  IF e < epoch
                  THEN <<"extractor.initialize">>
                       \o Repeat("extractor.check_feature", cfg.num_batches)
                       \o <<"extractor.save_feature">>
                  ELSE IF e = epoch /\ tpc = "batch_loop"
                       THEN <<"extractor.initialize">>
                            \o Repeat("extractor.check_feature", batch)
                       ELSE <<>>
        /\ \A e \in 0..(cfg.epochs - 1) : \A b \in 0..(cfg.num_batches - 1) :
              Len(Only(Segment("after_batch", e, b), {"extractor.check_feature"})) <= 1
        /\ \A i \in DOMAIN trace :
              /\ trace[i].func = "extractor.initialize" => trace[i].loc = "before_epoch"
              /\ trace[i].func = "extractor.check_feature" => trace[i].loc = "after_batch"
              /\ trace[i].func = "extractor.save_feature" => trace[i].loc = "after_epoch"

C2_Witness ==
    /\ pc = "done" /\ mode = "analyze" /\ cfg.epochs = 2 /\ cfg.num_batches = 2
    /\ EpochFuncs(ExtractorFuncs, 1) =
          <<"extractor.initialize", "extractor.check_feature",
            "extractor.check_feature", "extractor.save_feature">>

\* ---------------------------------------------- C3

C3_Lists ==
    /\ \A loc \in Locations : hooks[loc] = RegisteredAt(calls, loc)
    /\ \A loc \in Locations : \A e \in 0..cfg.epochs : \A b \in 0..cfg.num_batches :
          Segment(loc, e, b) \in {<<>>, hooks[loc]}
    /\ \A e \in 0..(cfg.epochs - 1) :
          e < epoch => /\ Segment("before_epoch", e, 0) = hooks["before_epoch"]
                       /\ Segment("after_epoch", e, cfg.num_batches) = hooks["after_epoch"]
    /\ (Entered /\ mode = "train" /\ cfg.step_location = "epoch") =>
          /\ Len(hooks["after_epoch"]) >= 3
          /\ SubSeq(hooks["after_epoch"], 1, 3) =
                <<"step_lr_epoch", "save_train", "summarize_reports">>
          /\ \A i \in 4..Len(hooks["after_epoch"]) : hooks["after_epoch"][i] = "quant_hook"
    /\ (Entered /\ mode = "analyze") =>
          hooks["before_epoch"] = <<"load_valid", "extractor.initialize">>

\* C3: at every location the callables that run are the concatenation, in
\* call order, of everything registered there; a later registration at a
\* populated location appends (a list only grows, by a suffix).  In train
\* mode with step_location 'epoch' main's after_epoch hooks are
\* step_lr_epoch, save_train, summarize_reports in that order (a hook the
\* quantizer adds comes after them); in analyze mode the before_epoch hooks
\* are load_valid, extractor.initialize.
C3_RegistrationOrder ==
    /\ []C3_Lists
    /\ [][\A loc \in Locations :
             /\ Len(hooks'[loc]) >= Len(hooks[loc])
             /\ SubSeq(hooks'[loc], 1, Len(hooks[loc])) = hooks[loc]]_vars

C3_Witness ==
    /\ pc = "done" /\ mode = "train" /\ cfg.step_location = "epoch" /\ cfg.epochs = 2
    /\ hooks["after_epoch"] =
          <<"step_lr_epoch", "save_train", "summarize_reports", "quant_hook">>
    /\ Segment("after_epoch", 1, cfg.num_batches) = hooks["after_epoch"]

\* ---------------------------------------------- C4

\* C4: with a dataset name outside cifar10, cifar100, imagenet, set_model
\* raises: nothing is returned (no model, no image size), main goes no
\* further than the call, so no optimizer, loaders or Trainer exist, no hook
\* is registered and no entry point is invoked; and set_model raises for no
\* other dataset.
C4_UnknownDatasetFails ==
    /\ cfg.dataset \notin Recognized =>
          /\ pc \in {"arch_name", "set_model", "failed"}
          /\ built = <<>>
          /\ objects \cap {"criterion", "optimizer", "lr_scheduler", "loaders", "trainer"} = {}
          /\ hooks = EmptyHooks /\ calls = <<>>
          /\ ~Entered /\ tpc = "idle" /\ trace = <<>>
    /\ pc = "failed" => cfg.dataset \notin Recognized

C4_Witness == pc = "failed" /\ cfg.dataset = S_mnist /\ built = <<>> /\ qcfg # <<>>

\* ---------------------------------------------- C5

ModelBuilt == built # <<>>
TheModel == built[1]
ImageSize == built[2]
ClassifierOut == TheModel.classifier[Len(TheModel.classifier)].out_features

\* C5: for cifar10, cifar100 and imagenet set_model succeeds, the last
\* classifier layer has 10, 100 and 1000 outputs, and the image size is 32
\* for the CIFAR datasets and 224 for ImageNet.
C5_ClassCount ==
    /\ (cfg.dataset \in Recognized /\ pc \notin {"arch_name", "set_model"}) =>
          ModelBuilt /\ pc # "failed"
    /\ ModelBuilt =>
          /\ cfg.dataset = S_cifar10 => ClassifierOut = 10 /\ ImageSize = 32
          /\ cfg.dataset = S_cifar100 => ClassifierOut = 100 /\ ImageSize = 32
          /\ cfg.dataset = S_imagenet => ClassifierOut = 1000 /\ ImageSize = 224
          /\ cfg.dataset \in Recognized

C5_Witness ==
    ModelBuilt /\ cfg.dataset = S_cifar100 /\ ClassifierOut = 100 /\ ImageSize = 32

\* ---------------------------------------------- C6

\* the table a built model was made from
TableOf(m) ==
    IF m.type = "MobileNetV2" THEN inverted_residual_setting
    ELSE inverted_residual_setting_cifar

BlockIndexes(m) == {i \in DOMAIN m.features : m.features[i].type = "InvertedResidual"}

\* the channels a block reads and writes, taken from its layers
BlockIn(b) == b.conv[1].conv.inplanes
BlockOut(b) == b.conv[Len(b.conv) - 1].out_planes

RECURSIVE Repeats(_, _)
Repeats(table, k) == IF k = 0 THEN 0 ELSE Repeats(table, k - 1) + table[k][3]

\* the place in features of block i of row k (after the first layer)
BlockAt(table, k, i) == 1 + Repeats(table, k - 1) + i

\* C6: in every model either builder makes, for every width multiplier, a
\* block adds the skip connection if and only if its stride is 1 and it reads
\* as many channels as it writes; the first block of a row whose stride is 2
\* has stride 2 and no skip connection.
C6_ResidualIff ==
    ModelBuilt =>
        /\ Cardinality(BlockIndexes(TheModel)) = Repeats(TableOf(TheModel), Len(TableOf(TheModel)))
        /\ \A i \in BlockIndexes(TheModel) :
              LET b == TheModel.features[i]
              IN (forward(b) = "x + conv(x)") <=> (b.stride = 1 /\ BlockIn(b) = BlockOut(b))
        /\ \A k \in DOMAIN TableOf(TheModel) :
              TableOf(TheModel)[k][4] = 2 =>
                  LET b == TheModel.features[BlockAt(TableOf(TheModel), k, 1)]
                  IN b.type = "InvertedResidual" /\ b.stride = 2 /\ forward(b) = "conv(x)"

C6_Witness ==
    /\ ModelBuilt /\ TheModel.type = "MobileNetV2" /\ cfg.width_mult = 3
    /\ \E i \in BlockIndexes(TheModel) : forward(TheModel.features[i]) = "x + conv(x)"
    /\ \E i \in BlockIndexes(TheModel) :
          LET b == TheModel.features[i]
          IN b.stride = 1 /\ BlockIn(b) # BlockOut(b) /\ forward(b) = "conv(x)"
    /\ forward(TheModel.features[BlockAt(inverted_residual_setting, 2, 1)]) = "conv(x)"

\* ---------------------------------------------- C7

\* C7: set_arch_name gives arch, '-' and the layer count for resnet and
\* preactresnet (resnet, 50: 'resnet-50'), 'mobilenetv2' for mobilenetv2 at
\* width 1.0 and 'mobilenetv2x<width_mult>' at any other width (0.5:
\* 'mobilenetv2x0.5'), and no step changes the configuration.
C7_ArchName ==
    /\ [](pc # "arch_name" =>
            /\ cfg.arch \in {S_resnet, S_preactresnet} =>
                  arch_name = cfg.arch \o <<"-">> \o IntStr(cfg.layers)
            /\ (cfg.arch = S_resnet /\ cfg.layers = 50) =>
                  arch_name = <<"r","e","s","n","e","t","-","5","0">>
            /\ (cfg.arch = S_mobilenetv2 /\ cfg.width_mult = 4) =>
                  arch_name = <<"m","o","b","i","l","e","n","e","t","v","2">>
            /\ (cfg.arch = S_mobilenetv2 /\ cfg.width_mult # 4) =>
                  arch_name = S_mobilenetv2 \o <<"x">> \o FloatStr(cfg.width_mult)
            /\ (cfg.arch = S_mobilenetv2 /\ cfg.width_mult = 2) =>
                  arch_name = <<"m","o","b","i","l","e","n","e","t","v","2","x","0",".","5">>)
    /\ [][cfg' = cfg]_vars

C7_Witness ==
    /\ pc = "set_model" /\ cfg.arch = S_mobilenetv2 /\ cfg.width_mult = 2
    /\ arch_name = <<"m","o","b","i","l","e","n","e","t","v","2","x","0",".","5">>

\* ---------------------------------------------- C8

C8_EntryMatches ==
    /\ Entered => mode = cfg.run_type /\ pc \in {"in_trainer", "done"}
    /\ (pc = "done" /\ cfg.run_type \in RunModes) => Entered /\ tpc = "finished"
    /\ (pc = "done" /\ cfg.run_type \notin RunModes) => ~Entered /\ calls = <<>>
    /\ (Entered /\ mode = "train" /\ HasAddHooks(cfg.quantization)) =>
          /\ calls # <<>>
          /\ calls[Len(calls)] = [loc |-> cfg.quantization, func |-> <<"quant_hook">>]
    /\ (Entered /\ mode # "train") => \A i \in DOMAIN calls : calls[i].func # <<"quant_hook">>

\* C8: for each of train, validate, test and analyze, every hook registration
\* (the quantizer's add_hooks in train included) is made before the Trainer's
\* entry point is invoked; the one entry point invoked is that of run_type;
\* once it has started no hook is registered and no other entry point starts.
C8_RegisterThenRun ==
    /\ []C8_EntryMatches
    /\ [][Entered => (hooks' = hooks /\ calls' = calls /\ mode' = mode)]_vars
    /\ [][(hooks' # hooks \/ calls' # calls) => (~Entered /\ ~Entered')]_vars

C8_Witness ==
    /\ pc = "done" /\ mode = "train" /\ cfg.quantization = "after_batch"
    /\ Len(calls) = 4 /\ cfg.epochs = 1 /\ cfg.num_batches = 2
    /\ Len(trace) > 0

\* ---------------------------------------------- C9

\* the pointwise expansion layer of a block, <<>> when the block has none
Expansion(b) == IF Len(b.conv) = 4 THEN <<b.conv[1]>> ELSE <<>>

\* the block was constructed with quant_input = flag, as far as its layers
\* show it: the expansion layer has an input quantizer exactly when flag is
\* false
BuiltWithFlag(b, flag) ==
    \A i \in DOMAIN Expansion(b) : (Expansion(b)[i].quant_act = <<>>) <=> flag

RowsCarryFlag(m) ==
    \A k \in DOMAIN TableOf(m) :
        /\ Len(TableOf(m)[k]) = 5
        /\ \A i \in 1..TableOf(m)[k][3] :
              BuiltWithFlag(m.features[BlockAt(TableOf(m), k, i)], TableOf(m)[k][5])

\* C9 as stated: in both families every row has the five fields and every
\* block is built with its row's quantize_input_flag.
C9_AllRowsFiveFields == ModelBuilt => RowsCarryFlag(TheModel)

\* C9, amended: every row of the ImageNet table has the five fields and every
\* block is built with its row's quantize_input_flag; every row of the CIFAR
\* table has the four fields (expansion_ratio, output_channels, repeat_count,
\* stride) and every block is built with the default flag, true.
C9_FlagPerFamily ==
    ModelBuilt =>
        IF TheModel.type = "MobileNetV2"
        THEN RowsCarryFlag(TheModel)
        ELSE \A k \in DOMAIN TableOf(TheModel) :
                /\ Len(TableOf(TheModel)[k]) = 4
                /\ \A i \in 1..TableOf(TheModel)[k][3] :
                      BuiltWithFlag(TheModel.features[BlockAt(TableOf(TheModel), k, i)], TRUE)

C9_Witness ==
    /\ ModelBuilt /\ TheModel.type = "MobileNetV2"
    /\ Expansion(TheModel.features[BlockAt(inverted_residual_setting, 2, 1)]) # <<>>
    /\ Expansion(TheModel.features[BlockAt(inverted_residual_setting, 2, 1)])[1].quant_act # <<>>
    /\ Expansion(TheModel.features[BlockAt(inverted_residual_setting, 1, 1)]) = <<>>

\* ---------------------------------------------- C10

LoadFuncs == {"load_init", "load_resume"}

\* the train branch is past lines 61 to 65
LoadRegistered ==
    pc \in {"train_step", "train_save", "train_quant", "train_call"}
        \/ (Entered /\ mode = "train")

\* C10: before_train holds at most one checkpoint-loading hook and no other
\* location holds any: in train mode load_init exactly when cfg.load is set
\* and cfg.resume is false, load_resume exactly when cfg.load is set and
\* cfg.resume is true, none when cfg.load is not set; in validate, test and
\* analyze mode before_train stays empty.  In a train run the hook has run
\* once, first, when the entry point has started.
C10_LoadHook ==
    /\ Len(Only(hooks["before_train"], LoadFuncs)) <= 1
    /\ \A loc \in Locations \ {"before_train"} : Only(hooks[loc], LoadFuncs) = <<>>
    /\ LoadRegistered =>
          Only(hooks["before_train"], LoadFuncs) =
              IF cfg.load = "None" THEN <<>>
              ELSE IF cfg.resume THEN <<"load_resume">> ELSE <<"load_init">>
    /\ cfg.run_type # "train" => hooks["before_train"] = <<>>
    /\ (Entered /\ mode = "train") =>
          /\ Only(FuncsOf(trace), LoadFuncs) = Only(hooks["before_train"], LoadFuncs)
          /\ Only(hooks["before_train"], LoadFuncs) # <<>> =>
                trace[1] = [loc |-> "before_train", func |-> hooks["before_train"][1],
                            epoch |-> 0, batch |-> 0]
    /\ (Entered /\ mode # "train") => \A i \in DOMAIN trace : trace[i].loc # "before_train"

C10_Witness ==
    /\ pc = "done" /\ mode = "train" /\ cfg.load # "None" /\ cfg.resume
    /\ cfg.quantization = "before_train" /\ cfg.epochs = 2
    /\ hooks["before_train"] = <<"load_resume", "quant_hook">>
    /\ trace[1].func = "load_resume"

====
